---- MODULE Spec2Model ----
(***************************************************************************)
(* The background job hub of internal/jobs/hub.go: jobs, their update      *)
(* channels and cancellation signals, the registry, the admission queue,   *)
(* the dispatch loop Run, Stop, and one execute goroutine per dispatch.    *)
(*                                                                         *)
(* Every action is one atomic step of the Go code: a critical section      *)
(* under a mutex, one channel operation, or one select.  A goroutine's     *)
(* position between two such steps is its pc.  An unrecovered panic ends   *)
(* the process: panicked names its cause, the memory of the process is     *)
(* gone (every other variable is back at its initial value) and no action  *)
(* is enabled afterwards.                                                  *)
(***************************************************************************)
EXTENDS Integers, Sequences, FiniteSets, Bags, TLC

\* ------------------------------------------------------------------ bounds
\* Number of jobs NewJob can create in one run.
NumJobs == 2
\* Capacity of the admission queue (make(chan *Job, 100) in NewHub), scaled down.
QueueCap == 1
\* Capacity of a job's update channel (make(chan JobUpdate, 100) in newJob), scaled down.
UpdatesCap == 1
\* Number of Submit calls in one run.
MaxSubmits == 2
\* Number of SetProgress calls the work functions make in one run.
MaxCalls == 2

JobIds == 1..NumJobs
\* An identifier GenerateID never returned.
UnknownId == 0
\* The arguments work functions pass to SetProgress.
ProgressVals == {10, 50}
\* error values: nil, an error of the work function, context.Canceled
Nil == "nil"
ErrWork == "err"
Canceled == "canceled"
Errors == {Nil, ErrWork, Canceled}
\* No SetProgress call made yet by this invocation of the work function.
NoCall == -1
\* The readers of the update streams: the requests served by JobStatus, the
\* README loop.
Readers == {"r1", "r2"}
\* A reader that has not started: at is its position, n the number of progress
\* patches it has emitted, signal the jobStatus signal it has sent.
NoSignal == "none"
NoLoop == [at |-> "none", n |-> 0, signal |-> NoSignal]

\* The largest number of tasks handed to runParallel.
MaxTasks == 3
Tasks == 1..MaxTasks
\* runParallel before it is called.  pc is the position of the caller, n is
\* len(tasks), spawned the number of goroutines started, task the position of
\* each task goroutine and res what its t.fn() returned, wg the WaitGroup
\* counter, errCh the buffered content of the channel (an error is named by
\* its task), chClosed whether it is closed, errs the slice collected, ret
\* the value returned.
NoError == [isNil |-> TRUE, errs |-> <<>>]
NotCalled == [pc |-> "idle", n |-> 0, spawned |-> 0,
              task |-> [i \in Tasks |-> "none"], res |-> [i \in Tasks |-> "none"],
              wg |-> 0, errCh |-> <<>>, chClosed |-> FALSE, errs |-> <<>>,
              ret |-> NoError]

VARIABLES
    created,    \* jobs returned by NewJob (newJob)
    Status,     \* Job.Status
    Progress,   \* Job.Progress
    Error,      \* Job.Error
    ctxDone,    \* Job.ctx is cancelled (Context().Done() is closed)
    updates,    \* Job.updates: the buffered content of the channel
    closed,     \* Job.updates has been closed
    jobs,       \* Hub.jobs: the identifiers registered
    submit,     \* Hub.submit: the buffered content of the admission queue
    done,       \* Hub.done has been closed
    runPc,      \* Run: "idle" (not started), "loop", "returned"
    stopPc,     \* Stop: "idle", "lock" (after close(h.done)), "returned"
    inflight,   \* Submit calls between the registry insert and the select, per job
    nSubmit,    \* number of Submit calls made
    nCalls,     \* number of SetProgress calls made
    execs,      \* the execute goroutines: a bag of [job, pc, err, p]
    admitted,   \* history: the jobs a Submit call has put on the admission queue
    dropped,    \* history: the jobs a Submit call has dropped ("job queue full")
    doneSeen,   \* history: per job, the readers that have received a Done update
    reqDone,    \* StartJob: r.Context() of the request is cancelled (the handler returned)
    demo,       \* the demo-task work function: its loop variable i and its position
    loops,      \* per reader: the position of its loop over Updates(), what it emitted
    par,        \* the installer's runParallel: main, the task goroutines, errCh, wg
    panicked    \* the cause of the unrecovered panic that ended the process, or NoPanic

vars == <<created, Status, Progress, Error, ctxDone, updates, closed, jobs, submit,
          done, runPc, stopPc, inflight, nSubmit, nCalls, execs, admitted, dropped,
          doneSeen, reqDone, demo, loops, par, panicked>>

\* What surrounds the hub: the request served by StartJob and the work function
\* it creates, the reader loops, and the installer.
outerVars == <<reqDone, demo, loops, par>>
\* The fields of the jobs.
jobVars == <<Status, Progress, Error, ctxDone, updates, closed>>
\* The registry and the bookkeeping of the Submit calls.
regVars == <<jobs, inflight, nSubmit, admitted, dropped>>
\* The stop signal and the positions of Run and Stop.
loopVars == <<done, runPc, stopPc>>

\* JobUpdate{Progress: p}
ProgressUpdate(p) == [Progress |-> p, Done |-> FALSE, Error |-> Nil]
\* JobUpdate{Progress: p, Done: true, Error: err}
TerminalUpdate(p, err) == [Progress |-> p, Done |-> TRUE, Error |-> err]

\* The execute goroutines, each given by its job, its position and its locals:
\* err (the work function's result) and p (the argument of its last SetProgress
\* call).  A local holds its initial value again once the code no longer reads
\* it: p when SetProgress has returned, err when the terminal update is sent.
Execs == BagToSet(execs)
\* Goroutine g takes a step and becomes h.
Step(g, h) == execs' = (execs (-) SetToBag({g})) (+) SetToBag({h})

\* Go's run-time panics the code can raise.
NoPanic == "none"
CloseOfClosed == "close of closed channel"
\* The same panic raised by close(h.done) in Stop: the stack trace of the panic
\* names the closing function.
CloseOfClosedDone == "close of closed channel [Hub.Stop]"
SendOnClosed == "send on closed channel"

\* ------------------------------------------------------------------- Init
\* The state after NewHub: no job, an empty registry and admission queue, no
\* goroutine started.
Init ==
    /\ created = {}
    /\ Status = [j \in JobIds |-> "pending"]
    /\ Progress = [j \in JobIds |-> 0]
    /\ Error = [j \in JobIds |-> Nil]
    /\ ctxDone = [j \in JobIds |-> FALSE]
    /\ updates = [j \in JobIds |-> <<>>]
    /\ closed = [j \in JobIds |-> FALSE]
    /\ jobs = {}
    /\ submit = <<>>
    /\ done = FALSE
    /\ runPc = "idle"
    /\ stopPc = "idle"
    /\ inflight = [j \in JobIds |-> 0]
    /\ nSubmit = 0
    /\ nCalls = 0
    /\ execs = EmptyBag
    /\ admitted = {}
    /\ dropped = {}
    /\ doneSeen = [j \in JobIds |-> {}]
    /\ reqDone = FALSE
    /\ demo = [i |-> 0, at |-> "top"]
    /\ loops = [r \in Readers |-> NoLoop]
    /\ par = NotCalled
    /\ panicked = NoPanic

\* An unrecovered panic: the process exits and its memory is gone.
Panic(cause) ==
    /\ panicked' = cause
    /\ created' = {}
    /\ Status' = [j \in JobIds |-> "pending"]
    /\ Progress' = [j \in JobIds |-> 0]
    /\ Error' = [j \in JobIds |-> Nil]
    /\ ctxDone' = [j \in JobIds |-> FALSE]
    /\ updates' = [j \in JobIds |-> <<>>]
    /\ closed' = [j \in JobIds |-> FALSE]
    /\ jobs' = {}
    /\ submit' = <<>>
    /\ done' = FALSE
    /\ runPc' = "idle"
    /\ stopPc' = "idle"
    /\ inflight' = [j \in JobIds |-> 0]
    /\ nSubmit' = 0
    /\ nCalls' = 0
    /\ execs' = EmptyBag
    /\ admitted' = {}
    /\ dropped' = {}
    /\ doneSeen' = [j \in JobIds |-> {}]
    /\ reqDone' = FALSE
    /\ demo' = [i |-> 0, at |-> "top"]
    /\ loops' = [r \in Readers |-> NoLoop]
    /\ par' = NotCalled

\* NewJob that registers the job it creates.
NewJobRegisters(j) ==
    /\ panicked = NoPanic
    /\ j \notin created
    /\ j = Cardinality(created) + 1
    /\ created' = created \cup {j}
    /\ jobs' = jobs \cup {j}
    /\ UNCHANGED <<outerVars, jobVars, inflight, nSubmit, admitted, dropped, loopVars,
                   submit, nCalls, execs, doneSeen, panicked>>

\* -------------------------------------------------------------------- Job
\* Hub.NewJob / newJob: a fresh identifier, Status "pending", an open context
\* and an empty update channel.  Nothing is registered.
NewJob(j) ==
    /\ panicked = NoPanic
    /\ j \notin created
    /\ j = Cardinality(created) + 1
    /\ created' = created \cup {j}
    /\ UNCHANGED <<outerVars, jobVars, regVars, loopVars, submit, nCalls, execs, doneSeen,
                   panicked>>

\* Cancel that flips the signal: a second call takes the first one back.
CancelToggle(j) ==
    /\ panicked = NoPanic
    /\ j \in created
    /\ ctxDone' = [ctxDone EXCEPT ![j] = ~@]
    /\ UNCHANGED <<created, outerVars, doneSeen, Status, Progress, Error, updates, closed,
                   regVars, loopVars, submit, nCalls, execs, panicked>>

\* Cancel that also marks the job failed.
CancelFails(j) ==
    /\ panicked = NoPanic
    /\ j \in created
    /\ ctxDone' = [ctxDone EXCEPT ![j] = TRUE]
    /\ Status' = [Status EXCEPT ![j] = "failed"]
    /\ Error' = [Error EXCEPT ![j] = Canceled]
    /\ UNCHANGED <<created, outerVars, doneSeen, Progress, updates, closed, regVars,
                   loopVars, submit, nCalls, execs, panicked>>

\* Cancel that also withdraws the job from the admission queue.
CancelWithdraws(j) ==
    /\ panicked = NoPanic
    /\ j \in created
    /\ ctxDone' = [ctxDone EXCEPT ![j] = TRUE]
    /\ submit' = SelectSeq(submit, LAMBDA x : x # j)
    /\ UNCHANGED <<created, outerVars, doneSeen, Status, Progress, Error, updates, closed,
                   regVars, loopVars, nCalls, execs, panicked>>

\* Job.Cancel: j.cancel().
Cancel(j) ==
    /\ panicked = NoPanic
    /\ j \in created
    /\ ctxDone' = [ctxDone EXCEPT ![j] = TRUE]
    /\ UNCHANGED <<created, outerVars, doneSeen, Status, Progress, Error, updates, closed,
                   regVars, loopVars, submit, nCalls, execs, panicked>>

\* Reader r takes the next value from Updates(): update := <-job.Updates(), an
\* iteration of for update := range job.Updates().
Receive(r, j) ==
    /\ panicked = NoPanic
    /\ j \in created
    /\ updates[j] # <<>>
    /\ updates' = [updates EXCEPT ![j] = Tail(@)]
    /\ doneSeen' = [doneSeen EXCEPT ![j] = IF Head(updates[j]).Done THEN @ \cup {r} ELSE @]
    /\ UNCHANGED <<created, outerVars, Status, Progress, Error, ctxDone, closed, regVars,
                   loopVars, submit, nCalls, execs, panicked>>

\* -------------------------------------------------------------------- Hub
\* Hub.Submit, lines 131-133: the registry insert under h.mu.Lock().
SubmitRegister(j) ==
    /\ panicked = NoPanic
    /\ j \in created
    /\ nSubmit < MaxSubmits
    /\ jobs' = jobs \cup {j}
    /\ inflight' = [inflight EXCEPT ![j] = @ + 1]
    /\ nSubmit' = nSubmit + 1
    /\ UNCHANGED <<created, outerVars, doneSeen, jobVars, loopVars, submit, nCalls, execs,
                   admitted, dropped, panicked>>

\* Submit with a plain send in place of the select: it waits for room.
SubmitSelectBlocking(j) ==
    /\ panicked = NoPanic
    /\ inflight[j] > 0
    /\ Len(submit) < QueueCap
    /\ inflight' = [inflight EXCEPT ![j] = @ - 1]
    /\ submit' = Append(submit, j)
    /\ admitted' = admitted \cup {j}
    /\ UNCHANGED <<created, outerVars, doneSeen, jobVars, loopVars, jobs, nSubmit, nCalls,
                   execs, dropped, panicked>>

\* Submit that starts the job itself when the queue is full.
SubmitSelectSpawns(j) ==
    /\ panicked = NoPanic
    /\ inflight[j] > 0
    /\ inflight' = [inflight EXCEPT ![j] = @ - 1]
    /\ IF Len(submit) < QueueCap
         THEN /\ submit' = Append(submit, j)
              /\ admitted' = admitted \cup {j}
              /\ UNCHANGED <<dropped, execs>>
         ELSE /\ dropped' = dropped \cup {j}
              /\ execs' = execs (+) SetToBag({[job |-> j, pc |-> "start", err |-> Nil,
                                               p |-> NoCall]})
              /\ UNCHANGED <<submit, admitted>>
    /\ UNCHANGED <<created, outerVars, doneSeen, jobVars, loopVars, jobs, nSubmit, nCalls,
                   panicked>>

\* Submit that keeps the last place of the queue free.
SubmitSelectDropsEarly(j) ==
    /\ panicked = NoPanic
    /\ inflight[j] > 0
    /\ inflight' = [inflight EXCEPT ![j] = @ - 1]
    /\ IF Len(submit) < QueueCap - 1
         THEN /\ submit' = Append(submit, j)
              /\ admitted' = admitted \cup {j}
              /\ UNCHANGED dropped
         ELSE /\ dropped' = dropped \cup {j}
              /\ UNCHANGED <<submit, admitted>>
    /\ UNCHANGED <<created, outerVars, doneSeen, jobVars, loopVars, jobs, nSubmit, nCalls,
                   execs, panicked>>

\* Hub.Submit, lines 135-139: the select with a default case.
SubmitSelect(j) ==
    /\ panicked = NoPanic
    /\ inflight[j] > 0
    /\ inflight' = [inflight EXCEPT ![j] = @ - 1]
    /\ IF Len(submit) < QueueCap
         THEN /\ submit' = Append(submit, j)
              /\ admitted' = admitted \cup {j}
              /\ UNCHANGED dropped
         ELSE /\ dropped' = dropped \cup {j}
              /\ UNCHANGED <<submit, admitted>>
    /\ UNCHANGED <<created, outerVars, doneSeen, jobVars, loopVars, jobs, nSubmit, nCalls,
                   execs, panicked>>

\* Hub.Get: job, ok := h.jobs[id]; return job, ok.
Get(id) == [job |-> id, ok |-> id \in jobs]

\* A caller of Hub.Get: a read under h.mu.RLock().
GetCall(id) ==
    /\ panicked = NoPanic
    /\ Get(id).ok \in BOOLEAN
    /\ UNCHANGED vars

\* main: go jobHub.Run().
RunStart ==
    /\ panicked = NoPanic
    /\ runPc = "idle"
    /\ runPc' = "loop"
    /\ UNCHANGED <<created, outerVars, doneSeen, jobVars, regVars, done, stopPc, submit,
                   nCalls, execs, panicked>>

\* Run that executes the jobs one after the other.
RunDispatchSerial ==
    /\ panicked = NoPanic
    /\ runPc = "loop"
    /\ submit # <<>>
    /\ \A g \in Execs : g.pc = "done"
    /\ submit' = Tail(submit)
    /\ execs' = execs (+) SetToBag({[job |-> Head(submit), pc |-> "start", err |-> Nil,
                                     p |-> NoCall]})
    /\ UNCHANGED <<created, outerVars, doneSeen, jobVars, regVars, loopVars, nCalls,
                   panicked>>

\* Hub.Run, lines 104-105: case job := <-h.submit: go h.execute(job).
RunDispatch ==
    /\ panicked = NoPanic
    /\ runPc = "loop"
    /\ submit # <<>>
    /\ submit' = Tail(submit)
    /\ execs' = execs (+) SetToBag({[job |-> Head(submit), pc |-> "start", err |-> Nil,
                                     p |-> NoCall]})
    /\ UNCHANGED <<created, outerVars, doneSeen, jobVars, regVars, loopVars, nCalls,
                   panicked>>

\* Hub.Run, lines 106-107: case <-h.done: return.
RunReturn ==
    /\ panicked = NoPanic
    /\ runPc = "loop"
    /\ done
    /\ runPc' = "returned"
    /\ UNCHANGED <<created, outerVars, doneSeen, jobVars, regVars, done, stopPc, submit,
                   nCalls, execs, panicked>>

\* Stop that does not close the stop signal.
StopCloseNoSignal ==
    /\ panicked = NoPanic
    /\ stopPc = "idle"
    /\ stopPc' = "lock"
    /\ UNCHANGED <<created, outerVars, doneSeen, jobVars, regVars, done, runPc, submit,
                   nCalls, execs, panicked>>

\* Stop whose second call is a no-op.
StopCloseOnce ==
    /\ panicked = NoPanic
    /\ IF done
         THEN UNCHANGED vars
         ELSE /\ done' = TRUE
              /\ stopPc' = "lock"
              /\ UNCHANGED <<created, outerVars, doneSeen, jobVars, regVars, runPc, submit,
                             nCalls, execs, panicked>>

\* Hub.Stop, line 114: close(h.done); closing a closed channel panics.
StopClose ==
    /\ panicked = NoPanic
    /\ IF done
         THEN Panic(CloseOfClosedDone)
         ELSE /\ done' = TRUE
              /\ stopPc' = "lock"
              /\ UNCHANGED <<created, outerVars, doneSeen, jobVars, regVars, runPc, submit,
                             nCalls, execs, panicked>>

\* Stop that cancels the running jobs only.
StopCancelRunning ==
    /\ panicked = NoPanic
    /\ stopPc = "lock"
    /\ ctxDone' = [j \in JobIds |-> ctxDone[j] \/ (j \in jobs /\ Status[j] = "running")]
    /\ stopPc' = "returned"
    /\ UNCHANGED <<created, outerVars, doneSeen, Status, Progress, Error, updates, closed,
                   regVars, done, runPc, submit, nCalls, execs, panicked>>

\* Stop that waits until every execute goroutine has finished.
StopCancelWaits ==
    /\ panicked = NoPanic
    /\ stopPc = "lock"
    /\ \A g \in Execs : g.pc = "done"
    /\ ctxDone' = [j \in JobIds |-> ctxDone[j] \/ j \in jobs]
    /\ stopPc' = "returned"
    /\ UNCHANGED <<created, outerVars, doneSeen, Status, Progress, Error, updates, closed,
                   regVars, done, runPc, submit, nCalls, execs, panicked>>

\* Stop that also empties the registry.
StopCancelAndClear ==
    /\ panicked = NoPanic
    /\ stopPc = "lock"
    /\ ctxDone' = [j \in JobIds |-> ctxDone[j] \/ j \in jobs]
    /\ jobs' = {}
    /\ stopPc' = "returned"
    /\ UNCHANGED <<created, outerVars, doneSeen, Status, Progress, Error, updates, closed,
                   inflight, nSubmit, admitted, dropped, done, runPc, submit, nCalls,
                   execs, panicked>>

\* Hub.Stop, lines 117-121: job.Cancel() for every entry of the registry, under
\* h.mu.RLock().
StopCancel ==
    /\ panicked = NoPanic
    /\ stopPc = "lock"
    /\ ctxDone' = [j \in JobIds |-> ctxDone[j] \/ j \in jobs]
    /\ stopPc' = "returned"
    /\ UNCHANGED <<created, outerVars, doneSeen, Status, Progress, Error, updates, closed,
                   regVars, done, runPc, submit, nCalls, execs, panicked>>

\* ---------------------------------------------------------------- execute
\* Hub.execute, lines 151-153: Status = "running" under job.mu.
ExecStart(g) ==
    /\ panicked = NoPanic
    /\ g.pc = "start"
    /\ Status' = [Status EXCEPT ![g.job] = "running"]
    /\ Step(g, [g EXCEPT !.pc = "work"])
    /\ UNCHANGED <<created, outerVars, doneSeen, Progress, Error, ctxDone, updates, closed,
                   regVars, loopVars, submit, nCalls, panicked>>

\* Job.SetProgress, lines 60-62, called by the work function: Progress = p
\* under j.mu.
SetProgressField(g, p) ==
    /\ panicked = NoPanic
    /\ g.pc = "work"
    /\ nCalls < MaxCalls
    /\ nCalls' = nCalls + 1
    /\ Progress' = [Progress EXCEPT ![g.job] = p]
    /\ Step(g, [g EXCEPT !.pc = "setprogress", !.p = p])
    /\ UNCHANGED <<created, outerVars, doneSeen, Status, Error, ctxDone, updates, closed,
                   regVars, loopVars, submit, panicked>>

\* SetProgress with a plain send in place of the select: it waits for room.
SetProgressSendBlocking(g) ==
    /\ panicked = NoPanic
    /\ g.pc = "setprogress"
    /\ IF closed[g.job]
         THEN Panic(SendOnClosed)
         ELSE /\ Len(updates[g.job]) < UpdatesCap
              /\ updates' = [updates EXCEPT ![g.job] = Append(@, ProgressUpdate(g.p))]
              /\ Step(g, [g EXCEPT !.pc = "work", !.p = NoCall])
              /\ UNCHANGED <<created, outerVars, doneSeen, Status, Progress, Error, ctxDone,
                             closed, regVars, loopVars, submit, nCalls, panicked>>

\* SetProgress that makes room on overflow by evicting the oldest update.
SetProgressSendEvict(g) ==
    /\ panicked = NoPanic
    /\ g.pc = "setprogress"
    /\ IF closed[g.job]
         THEN Panic(SendOnClosed)
         ELSE /\ updates' = [updates EXCEPT ![g.job] =
                                IF Len(@) < UpdatesCap
                                  THEN Append(@, ProgressUpdate(g.p))
                                  ELSE Append(Tail(@), ProgressUpdate(g.p))]
              /\ Step(g, [g EXCEPT !.pc = "work", !.p = NoCall])
              /\ UNCHANGED <<created, outerVars, doneSeen, Status, Progress, Error, ctxDone,
                             closed, regVars, loopVars, submit, nCalls, panicked>>

\* SetProgress on a channel without a capacity limit: the update is always
\* appended.
SetProgressSendUnbounded(g) ==
    /\ panicked = NoPanic
    /\ g.pc = "setprogress"
    /\ IF closed[g.job]
         THEN Panic(SendOnClosed)
         ELSE /\ updates' = [updates EXCEPT ![g.job] = Append(@, ProgressUpdate(g.p))]
              /\ Step(g, [g EXCEPT !.pc = "work", !.p = NoCall])
              /\ UNCHANGED <<created, outerVars, doneSeen, Status, Progress, Error, ctxDone,
                             closed, regVars, loopVars, submit, nCalls, panicked>>

\* Job.SetProgress, lines 64-68: the select with a default case.  A send on a
\* closed channel panics, in a select too.
SetProgressSend(g) ==
    /\ panicked = NoPanic
    /\ g.pc = "setprogress"
    /\ IF closed[g.job]
         THEN Panic(SendOnClosed)
         ELSE /\ updates' = [updates EXCEPT ![g.job] =
                                IF Len(@) < UpdatesCap
                                  THEN Append(@, ProgressUpdate(g.p))
                                  ELSE @]
              /\ Step(g, [g EXCEPT !.pc = "work", !.p = NoCall])
              /\ UNCHANGED <<created, outerVars, doneSeen, Status, Progress, Error, ctxDone,
                             closed, regVars, loopVars, submit, nCalls, panicked>>

\* What a work function can return: nil, an error of its own, or, having seen
\* Context().Done() closed, Context().Err().
WorkResults(j) == {Nil, ErrWork} \cup (IF ctxDone[j] THEN {Canceled} ELSE {})

\* Hub.execute, lines 157-169: err := job.work(job) returns e, and the terminal
\* status is set under job.mu.  (The return changes nothing another goroutine
\* reads, so it is one step with the critical section that follows it.)
ExecFinish(g, e) ==
    /\ panicked = NoPanic
    /\ g.pc = "work"
    /\ e \in WorkResults(g.job)
    /\ IF e # Nil
         THEN /\ Status' = [Status EXCEPT ![g.job] = "failed"]
              /\ Error' = [Error EXCEPT ![g.job] = e]
              /\ UNCHANGED Progress
         ELSE /\ Status' = [Status EXCEPT ![g.job] = "completed"]
              /\ Progress' = [Progress EXCEPT ![g.job] = 100]
              /\ UNCHANGED Error
    /\ Step(g, [g EXCEPT !.pc = "send", !.err = e])
    /\ UNCHANGED <<created, outerVars, doneSeen, ctxDone, updates, closed, regVars,
                   loopVars, submit, nCalls, panicked>>

\* Hub.execute, lines 172-176: job.updates <- JobUpdate{job.Progress, true, err},
\* a plain send: it waits while the buffer is full and panics on a closed channel.
ExecSend(g) ==
    /\ panicked = NoPanic
    /\ g.pc = "send"
    /\ IF closed[g.job]
         THEN Panic(SendOnClosed)
         ELSE /\ Len(updates[g.job]) < UpdatesCap
              /\ updates' = [updates EXCEPT ![g.job] =
                                Append(@, TerminalUpdate(Progress[g.job], g.err))]
              /\ Step(g, [g EXCEPT !.pc = "close", !.err = Nil])
              /\ UNCHANGED <<created, outerVars, doneSeen, Status, Progress, Error, ctxDone,
                             closed, regVars, loopVars, submit, nCalls, panicked>>

\* execute that returns after its terminal send without closing the stream.
ExecReturnsUnclosed(g) ==
    /\ panicked = NoPanic
    /\ g.pc = "close"
    /\ Step(g, [g EXCEPT !.pc = "done"])
    /\ UNCHANGED <<created, outerVars, doneSeen, jobVars, regVars, loopVars, submit,
                   nCalls, panicked>>

\* Hub.execute, line 177: close(job.updates); closing a closed channel panics.
ExecClose(g) ==
    /\ panicked = NoPanic
    /\ g.pc = "close"
    /\ IF closed[g.job]
         THEN Panic(CloseOfClosed)
         ELSE /\ closed' = [closed EXCEPT ![g.job] = TRUE]
              /\ Step(g, [g EXCEPT !.pc = "done"])
              /\ UNCHANGED <<created, outerVars, doneSeen, Status, Progress, Error, ctxDone,
                             updates, regVars, loopVars, submit, nCalls, panicked>>

\* ------------------------------------------------------------------- Next
Next ==
    \/ \E j \in JobIds : NewJob(j)
    \/ \E j \in JobIds : Cancel(j)
    \/ \E r \in Readers : \E j \in JobIds : Receive(r, j)
    \/ \E j \in JobIds : SubmitRegister(j)
    \/ \E j \in JobIds : SubmitSelect(j)
    \/ \E id \in JobIds \cup {UnknownId} : GetCall(id)
    \/ RunStart
    \/ RunDispatch
    \/ RunReturn
    \/ StopClose
    \/ StopCancel
    \/ \E g \in Execs : ExecStart(g)
    \/ \E g \in Execs : \E p \in ProgressVals : SetProgressField(g, p)
    \/ \E g \in Execs : SetProgressSend(g)
    \/ \E g \in Execs : \E e \in Errors : ExecFinish(g, e)
    \/ \E g \in Execs : ExecSend(g)
    \/ \E g \in Execs : ExecClose(g)

Spec == Init /\ [][Next]_vars

\* The scheduling of the goroutines main and Run start: the Go scheduler runs
\* every goroutine that can take a step (Run once started by main, each execute
\* up to the return of its work function), and every work function returns.
\* Nothing is assumed of the callers of the hub or of the readers of the
\* update streams.
FairSpec ==
    /\ Spec
    /\ WF_vars(RunStart)
    /\ WF_vars(RunDispatch)
    /\ WF_vars(\E g \in Execs : ExecStart(g))
    /\ WF_vars(\E g \in Execs : SetProgressSend(g))
    /\ WF_vars(\E g \in Execs : \E e \in Errors : ExecFinish(g, e))

\* The scheduling of the goroutines of the hub: the Go scheduler runs Run and
\* every execute goroutine whenever it can take a step, a select whose cases
\* are ready again and again takes each of them in the end (the choice among
\* ready cases is random), and every work function returns.  Nothing is
\* assumed of the callers of the hub or of the readers of the update streams.
SchedSpec ==
    /\ FairSpec
    /\ WF_vars(RunReturn)
    /\ WF_vars(\E g \in Execs : ExecSend(g))
    /\ WF_vars(\E g \in Execs : ExecClose(g))

\* --------------------------------------------------------------- StartJob
\* The handler StartJob and its "demo-task" job: one request creates the job,
\* submits it once and returns; the request's context r.Context() is cancelled
\* when the handler returns.  The work function is
\*     for i := 0; i <= 100; i += 10 {
\*         select { case <-j.Context().Done(): return j.Context().Err()
\*                  default: j.SetProgress(i)
\*                           select { case <-j.Context().Done(): return j.Context().Err()
\*                                    case <-r.Context().Done(): return r.Context().Err()
\*                                    default: } } }
\*     return nil
DemoJob == 1
DemoLast == 100
DemoStride == 10

\* StartJob: job := h.jobHub.NewJob("demo-task", ...).
StartJobNewJob ==
    /\ created = {}
    /\ NewJob(DemoJob)

\* StartJob: h.jobHub.Submit(job), the registry insert.
StartJobSubmitRegister ==
    /\ nSubmit = 0
    /\ SubmitRegister(DemoJob)

\* StartJob: h.jobHub.Submit(job), the select.
StartJobSubmitSelect ==
    SubmitSelect(DemoJob)

\* StartJob returns after Submit and its response: the server cancels
\* r.Context().
StartJobReturn ==
    /\ panicked = NoPanic
    /\ nSubmit = 1 /\ inflight[DemoJob] = 0
    /\ ~reqDone
    /\ reqDone' = TRUE
    /\ UNCHANGED <<created, par, demo, loops, doneSeen, jobVars, regVars, loopVars, submit, nCalls,
                   execs, panicked>>

\* The work function at the top of an iteration, i <= 100: the first select
\* returns the job's cancellation error, or by default calls SetProgress(i),
\* whose first step sets Progress under j.mu.
DemoSelectCtx(g) ==
    /\ g.pc = "work"
    /\ demo.at = "top" /\ demo.i <= DemoLast
    /\ IF ctxDone[g.job]
         THEN ExecFinish(g, Canceled)
         ELSE /\ panicked = NoPanic
              /\ Progress' = [Progress EXCEPT ![g.job] = demo.i]
              /\ Step(g, [g EXCEPT !.pc = "setprogress", !.p = demo.i])
              /\ demo' = [demo EXCEPT !.at = "after"]
              /\ UNCHANGED <<created, par, reqDone, loops, doneSeen, Status, Error, ctxDone,
                             updates, closed, regVars, loopVars, submit, nCalls, panicked>>

\* The errors the second select can return: a select takes any one of its
\* ready cases, and its default case only when none is ready.  r.Context().Err()
\* is an error of the work function's own.
DemoReady(j) ==
    (IF ctxDone[j] THEN {Canceled} ELSE {}) \cup (IF reqDone THEN {ErrWork} ELSE {})

\* The work function after SetProgress(i) has returned: the second select,
\* then i += 10.
DemoSelectReq(g) ==
    /\ g.pc = "work"
    /\ demo.at = "after"
    /\ IF DemoReady(g.job) = {}
         THEN /\ panicked = NoPanic
              /\ demo' = [i |-> demo.i + DemoStride, at |-> "top"]
              /\ UNCHANGED <<created, par, reqDone, loops, doneSeen, jobVars, regVars, loopVars,
                             submit, nCalls, execs, panicked>>
         ELSE \E e \in DemoReady(g.job) : ExecFinish(g, e)

\* The work function after the last iteration: return nil.
DemoReturnNil(g) ==
    /\ g.pc = "work"
    /\ demo.at = "top" /\ demo.i > DemoLast
    /\ ExecFinish(g, Nil)

DemoNext ==
    \/ StartJobNewJob
    \/ StartJobSubmitRegister
    \/ StartJobSubmitSelect
    \/ StartJobReturn
    \/ RunStart
    \/ RunDispatch
    \/ \E g \in Execs : ExecStart(g)
    \/ \E g \in Execs : DemoSelectCtx(g)
    \/ \E g \in Execs : SetProgressSend(g)
    \/ \E g \in Execs : DemoSelectReq(g)
    \/ \E g \in Execs : DemoReturnNil(g)
    \/ \E g \in Execs : ExecSend(g)
    \/ \E g \in Execs : ExecClose(g)
    \/ \E r \in Readers : Receive(r, DemoJob)

\* One StartJob request on a hub on which neither Cancel nor Stop is called.
DemoSpec == Init /\ [][DemoNext]_vars

\* ------------------------------------------------------ the reader loops
\* JobStatus, lines 113-118: job, ok := h.jobHub.Get(jobID), and "job not
\* found" when !ok.
JobStatusGet(r, id) ==
    /\ panicked = NoPanic
    /\ loops[r].at = "none"
    /\ loops' = [loops EXCEPT ![r].at = IF Get(id).ok THEN "status" ELSE "notfound"]
    /\ UNCHANGED <<created, par, reqDone, demo, doneSeen, jobVars, regVars, loopVars, submit,
                   nCalls, execs, panicked>>

\* JobStatus whose loop has no break: it goes on ranging after the terminal
\* update.
JobStatusReceiveNoBreak(r) ==
    /\ panicked = NoPanic
    /\ loops[r].at \in {"status", "leftDone"}
    /\ updates[DemoJob] # <<>>
    /\ LET update == Head(updates[DemoJob]) IN
         /\ updates' = [updates EXCEPT ![DemoJob] = Tail(@)]
         /\ doneSeen' = [doneSeen EXCEPT ![DemoJob] = IF update.Done THEN @ \cup {r} ELSE @]
         /\ loops' = [loops EXCEPT ![r] =
                         IF update.Done
                           THEN [at |-> "leftDone", n |-> loops[r].n + 1,
                                 signal |-> IF update.Error # Nil THEN "failed"
                                                                  ELSE "completed"]
                           ELSE [@ EXCEPT !.n = loops[r].n + 1]]
    /\ UNCHANGED <<created, par, reqDone, demo, Status, Progress, Error, ctxDone, closed,
                   regVars, loopVars, submit, nCalls, execs, panicked>>

\* JobStatus, lines 123-140: one iteration of for update := range job.Updates().
\* The progress patch of the update; at the update with Done the info patch,
\* the jobStatus signal and break.
JobStatusReceive(r) ==
    /\ panicked = NoPanic
    /\ loops[r].at = "status"
    /\ updates[DemoJob] # <<>>
    /\ LET update == Head(updates[DemoJob]) IN
         /\ updates' = [updates EXCEPT ![DemoJob] = Tail(@)]
         /\ doneSeen' = [doneSeen EXCEPT ![DemoJob] = IF update.Done THEN @ \cup {r} ELSE @]
         /\ loops' = [loops EXCEPT ![r] =
                         IF update.Done
                           THEN [at |-> "leftDone", n |-> loops[r].n + 1,
                                 signal |-> IF update.Error # Nil THEN "failed"
                                                                  ELSE "completed"]
                           ELSE [@ EXCEPT !.n = loops[r].n + 1]]
    /\ UNCHANGED <<created, par, reqDone, demo, Status, Progress, Error, ctxDone, closed,
                   regVars, loopVars, submit, nCalls, execs, panicked>>

\* The README: job := jobHub.NewJob(...); jobHub.Submit(job); the caller then
\* enters for update := range job.Updates().
ReadmeRange(r) ==
    /\ panicked = NoPanic
    /\ loops[r].at = "none"
    /\ DemoJob \in jobs
    /\ loops' = [loops EXCEPT ![r].at = "range"]
    /\ UNCHANGED <<created, par, reqDone, demo, doneSeen, jobVars, regVars, loopVars, submit,
                   nCalls, execs, panicked>>

\* The README: one iteration of for update := range job.Updates(); the loop
\* has no break.
ReadmeReceive(r) ==
    /\ loops[r].at = "range"
    /\ Receive(r, DemoJob)

\* for ... range over a channel ends when the channel is closed and empty.
LoopEnds(r) ==
    /\ panicked = NoPanic
    /\ loops[r].at \in {"status", "range"}
    /\ closed[DemoJob] /\ updates[DemoJob] = <<>>
    /\ loops' = [loops EXCEPT ![r].at = "leftClosed"]
    /\ UNCHANGED <<created, par, reqDone, demo, doneSeen, jobVars, regVars, loopVars, submit,
                   nCalls, execs, panicked>>

ReadNext ==
    \/ NewJob(DemoJob)
    \/ SubmitRegister(DemoJob)
    \/ SubmitSelect(DemoJob)
    \/ RunStart
    \/ RunDispatch
    \/ \E g \in Execs : ExecStart(g)
    \/ \E g \in Execs : \E p \in ProgressVals : SetProgressField(g, p)
    \/ \E g \in Execs : SetProgressSend(g)
    \/ \E g \in Execs : \E e \in Errors : ExecFinish(g, e)
    \/ \E g \in Execs : ExecSend(g)
    \/ \E g \in Execs : ExecClose(g)
    \/ \E r \in Readers : \E id \in {UnknownId, DemoJob} : JobStatusGet(r, id)
    \/ \E r \in Readers : JobStatusReceive(r)
    \/ \E r \in Readers : ReadmeRange(r)
    \/ \E r \in Readers : ReadmeReceive(r)
    \/ \E r \in Readers : LoopEnds(r)

\* One job, submitted once or more, and its readers, on a hub on which neither
\* Cancel nor Stop is called.
ReadSpec == Init /\ [][ReadNext]_vars

\* The scheduling of ReadSpec: the Go scheduler runs every goroutine that can
\* take a step, Run, the execute goroutines and the readers alike, and the
\* work function returns.
ReadFairSpec ==
    /\ ReadSpec
    /\ WF_vars(RunStart)
    /\ WF_vars(RunDispatch)
    /\ WF_vars(\E g \in Execs : ExecStart(g))
    /\ WF_vars(\E g \in Execs : SetProgressSend(g))
    /\ WF_vars(\E g \in Execs : \E e \in Errors : ExecFinish(g, e))
    /\ WF_vars(\E g \in Execs : ExecSend(g))
    /\ WF_vars(\E g \in Execs : ExecClose(g))
    /\ \A r \in Readers : WF_vars(JobStatusReceive(r))
    /\ \A r \in Readers : WF_vars(ReadmeReceive(r))
    /\ \A r \in Readers : WF_vars(LoopEnds(r))

\* ------------------------------------------- the installer's runParallel
\* What runParallel leaves alone: the hub, its handlers and its readers.
hubVars == <<created, jobVars, regVars, loopVars, submit, nCalls, execs, doneSeen,
             reqDone, demo, loops, panicked>>

\* errors.Join(errs...): nil when there is no error to join, else an error
\* that wraps them all.
Join(errs) == [isNil |-> errs = <<>>, errs |-> errs]

\* main calls runParallel with k tasks: var wg, errCh := make(chan error, k).
ParCall(k) ==
    /\ par.pc = "idle"
    /\ par' = [par EXCEPT !.pc = "spawn", !.n = k]
    /\ UNCHANGED hubVars

\* runParallel that waits for nothing: wg.Wait() returns at once.
ParWaitSkipped ==
    /\ par.pc = "spawn" /\ par.spawned = par.n
    /\ par' = [par EXCEPT !.pc = "close"]
    /\ UNCHANGED hubVars

\* One iteration of for _, t := range tasks: wg.Add(1); go func() {...}().
ParSpawn ==
    /\ par.pc = "spawn" /\ par.spawned < par.n
    /\ par' = [par EXCEPT !.spawned = @ + 1, !.wg = @ + 1,
                          !.task[par.spawned + 1] = "run"]
    /\ UNCHANGED hubVars

\* wg.Wait(): returns when the counter is zero.
ParWait ==
    /\ par.pc = "spawn" /\ par.spawned = par.n
    /\ par.wg = 0
    /\ par' = [par EXCEPT !.pc = "close"]
    /\ UNCHANGED hubVars

\* close(errCh).
ParClose ==
    /\ par.pc = "close"
    /\ par' = [par EXCEPT !.chClosed = TRUE, !.pc = "range"]
    /\ UNCHANGED hubVars

\* One iteration of for err := range errCh: errs = append(errs, err).
ParRange ==
    /\ par.pc = "range"
    /\ par.errCh # <<>>
    /\ par' = [par EXCEPT !.errs = Append(@, Head(par.errCh)), !.errCh = Tail(@)]
    /\ UNCHANGED hubVars

\* The range ends on the closed, empty channel: return errors.Join(errs...).
ParReturn ==
    /\ par.pc = "range"
    /\ par.errCh = <<>> /\ par.chClosed
    /\ par' = [par EXCEPT !.pc = "returned", !.ret = Join(par.errs)]
    /\ UNCHANGED hubVars

\* The goroutine of task i: err := t.fn(), which returns nil or an error.
TaskRun(i, r) ==
    /\ par.task[i] = "run"
    /\ par' = [par EXCEPT !.res[i] = r,
                          !.task[i] = IF r = "err" THEN "send" ELSE "exit"]
    /\ UNCHANGED hubVars

\* The goroutine of task i: errCh <- fmt.Errorf("%s: %w", t.name, err), a plain
\* send on a channel of capacity len(tasks); on a closed channel it panics.
TaskSend(i) ==
    /\ panicked = NoPanic
    /\ par.task[i] = "send"
    /\ IF par.chClosed
         THEN Panic(SendOnClosed)
         ELSE /\ Len(par.errCh) < par.n
              /\ par' = [par EXCEPT !.errCh = Append(@, i), !.task[i] = "exit"]
              /\ UNCHANGED hubVars

\* The goroutine of task i returns: the deferred wg.Done().
TaskDone(i) ==
    /\ par.task[i] = "exit"
    /\ par' = [par EXCEPT !.wg = @ - 1, !.task[i] = "done"]
    /\ UNCHANGED hubVars

ParNext ==
    \/ \E k \in 0..MaxTasks : ParCall(k)
    \/ ParSpawn
    \/ ParWait
    \/ ParClose
    \/ ParRange
    \/ ParReturn
    \/ \E i \in Tasks : \E r \in {"nil", "err"} : TaskRun(i, r)
    \/ \E i \in Tasks : TaskSend(i)
    \/ \E i \in Tasks : TaskDone(i)

\* One call of runParallel, with zero to MaxTasks tasks, each of which returns.
ParSpec == Init /\ [][ParNext]_vars

\* =========================================================== the claims
Terminal == {"completed", "failed"}
\* The number of execute goroutines in the set S.
Count(S) == BagCardinality([g \in S |-> execs[g]])
\* The execute goroutines of job j at one of the positions pcs.
ExecsAt(j, pcs) == {g \in Execs : g.job = j /\ g.pc \in pcs}
\* The terminal updates sent on j's stream, those still buffered, and those a
\* reader has received.
TerminalSent(j) == Count(ExecsAt(j, {"close", "done"}))
TerminalBuffered(j) == Cardinality({i \in 1..Len(updates[j]) : updates[j][i].Done})
TerminalDelivered(j) == TerminalSent(j) - TerminalBuffered(j)
\* The update stream of j is full.
Full(j) == Len(updates[j]) >= UpdatesCap
\* A Submit(id) call has been made, and one has returned.
PassedToSubmit(id) == id \in JobIds /\ (inflight[id] > 0 \/ id \in admitted \cup dropped)
SubmitReturned(id) == id \in admitted \cup dropped

\* C1: for every job, whatever the sequence of operations, at most one update
\* with Done=true is delivered to the readers of its stream, and no update
\* follows a Done update in the stream.
C1_OneTerminalUpdate ==
    \A j \in JobIds :
        /\ TerminalDelivered(j) <= 1
        /\ \A i \in 1..Len(updates[j]) : updates[j][i].Done => i = Len(updates[j])

\* C2: once the work function of a dispatched job has returned, Status is
\* "completed" if it returned nil and "failed" otherwise; and whenever Status
\* is "completed", Progress is 100.
C2_StatusMatchesResult ==
    /\ \A g \in Execs : g.pc = "send" =>
           Status[g.job] = (IF g.err = Nil THEN "completed" ELSE "failed")
    /\ \A j \in JobIds : Status[j] = "completed" => Progress[j] = 100

C5_SubmittedStaysFound ==
    \A j \in JobIds : PassedToSubmit(j) => Get(j) = [job |-> j, ok |-> TRUE]

\* C5 witness: after Stop has returned, a dropped job and a job in a terminal
\* state are both still found.
C5_Witness ==
    /\ stopPc = "returned"
    /\ \E j \in dropped \ admitted : SubmitReturned(j) /\ Get(j).ok
    /\ \E k \in admitted : Status[k] \in Terminal /\ Get(k).ok

\* C6: Get returns not-found for every identifier never passed to Submit, the
\* identifier of a created but unsubmitted job included.  (GetCall, the call
\* itself, leaves every variable unchanged.)
C6_NeverSubmittedNotFound ==
    \A id \in JobIds \cup {UnknownId} : ~PassedToSubmit(id) => ~Get(id).ok

\* C6 witness: a job created by NewJob and not submitted, beside a registered
\* one, is not found.
C6_Witness ==
    \E j \in created : ~PassedToSubmit(j) /\ jobs # {} /\ ~Get(j).ok /\ ~Get(UnknownId).ok

\* C7: in every step, a job's Status does not change to "pending" or "running"
\* once it is "completed" or "failed", and does not go from "pending" to a
\* terminal status.
C7_StatusOnlyForward ==
    [][panicked' = NoPanic =>
         \A j \in JobIds :
             /\ Status[j] \in Terminal => Status'[j] \notin {"pending", "running"}
             /\ Status[j] = "pending" => Status'[j] \notin Terminal]_vars

\* C8: a cancelled signal stays cancelled, and a job whose work function has
\* returned the cancellation error has Status "failed" and that Error.
C8_CancelledJobFails ==
    [][panicked' = NoPanic =>
         /\ \A j \in JobIds : ctxDone[j] => ctxDone'[j]
         /\ \A g \in Execs' : (g.pc = "send" /\ g.err = Canceled) =>
                (Status'[g.job] = "failed" /\ Error'[g.job] = Canceled)]_vars

\* C9: SetProgress never blocks: its send is enabled whenever it is reached;
\* the call sets Progress to p; and on a full stream the send leaves the
\* stream's content as it is.
C9_SetProgressNeverBlocks ==
    /\ [](\A g \in Execs : g.pc = "setprogress" => ENABLED SetProgressSend(g))
    /\ [][\A g \in Execs :
            /\ \A p \in ProgressVals : SetProgressField(g, p) => Progress'[g.job] = p
            /\ (SetProgressSend(g) /\ panicked' = NoPanic /\ Full(g.job)) =>
                   updates' = updates]_vars

\* C9 witness: a SetProgress call has set Progress to its argument and is at
\* its send with the stream open and full of undrained progress updates.
C9_Witness ==
    \E g \in Execs :
        /\ g.pc = "setprogress"
        /\ Progress[g.job] = g.p
        /\ Full(g.job)
        /\ ~closed[g.job]
        /\ \A i \in 1..Len(updates[g.job]) : ~updates[g.job][i].Done

\* C10: when a SetProgress call of a running work function returns, Progress
\* is the argument of that call, the last one in program order.
C10_ProgressIsLastArg ==
    [][\A g \in Execs :
         (SetProgressSend(g) /\ panicked' = NoPanic) => Progress'[g.job] = g.p]_vars

\* C11: when Stop returns, the cancellation signal of every job that was in
\* the registry when Stop was called is set, whatever the job's Status: the
\* cancelling step of Stop sets the signal of every job registered at that
\* moment and returns, and between the call and that step (as in every step
\* that is not a panic) no job leaves the registry and no signal is unset.
C11_StopCancelsRegistered ==
    /\ stopPc = "lock" =>
           /\ ENABLED StopCancel
           /\ ~ENABLED (StopCancel /\ ~(stopPc' = "returned" /\ \A j \in jobs : ctxDone'[j]))
    /\ ~ENABLED (Next /\ panicked' = NoPanic
                     /\ ~(jobs \subseteq jobs' /\ \A j \in JobIds : ctxDone[j] => ctxDone'[j]))

\* C11 witness: Stop has returned; a job still pending and a job in a terminal
\* state, both registered, have their signals set.
C11_Witness ==
    /\ stopPc = "returned"
    /\ \E j, k \in jobs :
           /\ Status[j] = "pending" /\ ctxDone[j]
           /\ Status[k] \in Terminal /\ ctxDone[k]

\* C12: Stop returns without waiting for any job: once called, its cancelling
\* step is enabled whatever the execute goroutines are doing, and it changes
\* neither a Status nor a goroutine, so a job that is "running" with a work
\* function that has not returned is still "running" when Stop has returned.
C12_StopDoesNotWait ==
    /\ ~done /\ panicked = NoPanic => ENABLED StopClose
    /\ stopPc = "lock" =>
           /\ ENABLED StopCancel
           /\ ~ENABLED (StopCancel /\ ~(stopPc' = "returned" /\ Status' = Status /\ execs' = execs))
    /\ ~ENABLED (StopClose /\ panicked' = NoPanic /\ ~(Status' = Status /\ execs' = execs))

\* C12 witness: Stop has returned while a work function has not, and the job
\* is still "running", its signal set.
C12_Witness ==
    /\ stopPc = "returned"
    /\ \E g \in Execs : g.pc = "work" /\ Status[g.job] = "running" /\ ctxDone[g.job]

\* C13: a second call of Stop fails: once the stop signal is closed, a call of
\* Stop is not a no-op and does not succeed, it panics with "close of closed
\* channel"; a call succeeds only while the signal is open.
C13_SecondStopPanics ==
    /\ done /\ panicked = NoPanic =>
           /\ ENABLED StopClose
           /\ ~ENABLED (StopClose /\ panicked' # CloseOfClosedDone)
    /\ ~done /\ panicked = NoPanic =>
           /\ ENABLED StopClose
           /\ ~ENABLED (StopClose /\ ~(panicked' = NoPanic /\ done'))

\* C13 witness: the process has died of the panic of a second Stop.
C13_Witness ==
    panicked = CloseOfClosedDone

\* M jobs have been submitted in succession, each once, every call has
\* returned, and M exceeds the capacity of the admission queue.
SubmittedMoreThanCap ==
    /\ nSubmit > QueueCap
    /\ nSubmit = Cardinality(jobs)
    /\ \A j \in JobIds : inflight[j] = 0

\* C14: when more jobs than the admission queue holds have been submitted,
\* each once, at least QueueCap of them have been admitted; every job that was
\* not admitted is "pending" and found by Get; and, the dispatch loop running
\* and the work functions returning, every admitted job reaches a terminal
\* state (unless Stop is called or the process panics).
C14_QueueCapJobsRun ==
    /\ [](SubmittedMoreThanCap => Cardinality(admitted) >= QueueCap)
    /\ [](\A j \in dropped \ admitted : Status[j] = "pending" /\ Get(j).ok)
    /\ \A j \in JobIds :
           (j \in admitted) ~> (Status[j] \in Terminal \/ done \/ panicked # NoPanic)

\* C14 witness: two jobs were submitted to a running hub with a queue of
\* capacity QueueCap; the admitted one has reached a terminal state and the
\* other one, dropped, is "pending" and found.
C14_Witness ==
    /\ SubmittedMoreThanCap
    /\ runPc = "loop" /\ ~done
    /\ \E j \in admitted : Status[j] \in Terminal
    /\ \E k \in dropped \ admitted : Status[k] = "pending" /\ Get(k).ok

\* C15: a job's stream is first in, first out, and its terminal update is
\* last: every step that changes the stream either hands its oldest update to
\* a reader or puts one update behind all the others, and no progress update
\* is put on the stream once the terminal update has been sent.
C15_InOrderTerminalLast ==
    [][panicked' = NoPanic =>
         \A j \in JobIds :
             updates'[j] # updates[j] =>
                 \/ updates[j] # <<>> /\ updates'[j] = Tail(updates[j])
                 \/ /\ Len(updates'[j]) = Len(updates[j]) + 1
                    /\ SubSeq(updates'[j], 1, Len(updates[j])) = updates[j]
                    /\ ~updates'[j][Len(updates'[j])].Done => TerminalSent(j) = 0]_vars

\* C16: the stream is consumed, not broadcast: a reader that receives takes
\* the oldest update off the stream, so that no other reader receives it, and
\* at most one reader of a job ever receives a Done update.
C16_OneReaderGetsTerminal ==
    \A j \in JobIds :
        /\ \A r \in Readers : ~ENABLED (Receive(r, j) /\ updates'[j] # Tail(updates[j]))
        /\ Cardinality(doneSeen[j]) <= 1

C18_DispatchDoesNotWait ==
    /\ (panicked = NoPanic /\ runPc = "loop" /\ submit # <<>>) =>
           /\ ENABLED RunDispatch
           /\ ~ENABLED (RunDispatch /\ execs' = execs)
    /\ \A g \in Execs :
           /\ g.pc = "start" => ENABLED ExecStart(g)
           /\ g.pc = "work" => ENABLED ExecFinish(g, Nil)

\* C18 witness: a job dispatched while the work function of another job has
\* not returned has reached a terminal state, and the other is still running.
C18_Witness ==
    \E j, k \in JobIds :
        /\ j # k
        /\ ExecsAt(j, {"work"}) # {} /\ Status[j] = "running"
        /\ ExecsAt(k, {"send", "close", "done"}) # {} /\ Status[k] \in Terminal

\* The steps by which execute goroutine g handles the failure of its work
\* function: the return of an error with the status block, and the send of
\* the terminal update that carries the error.
FailureStep(g) ==
    \/ \E e \in Errors \ {Nil} : ExecFinish(g, e)
    \/ g.err # Nil /\ ExecSend(g)

LastUpdate(j) == updates[j][Len(updates[j])]

\* C20: once the work function of a dispatched job has returned a non-nil
\* error e, the job's Error is e and its Status is "failed"; the terminal
\* update execute then sends has Done = true and Error = e; and in every
\* state a job's Error is non-nil only if its Status is "failed".
C20_ErrorOnlyWhenFailed ==
    /\ \A g \in Execs :
           (g.pc = "send" /\ g.err # Nil) =>
               /\ Error[g.job] = g.err /\ Status[g.job] = "failed"
               /\ ~ENABLED (/\ ExecSend(g)
                             /\ panicked' = NoPanic
                             /\ ~(LastUpdate(g.job)'.Done /\ LastUpdate(g.job)'.Error = g.err))
    /\ \A j \in JobIds : Error[j] # Nil => Status[j] = "failed"

\* C21: Cancel is idempotent and never fails: it is enabled on every job at
\* every moment, it does not panic, and on a job whose signal is set already
\* (by Cancel or by Stop) it changes nothing at all; Stop's cancelling step
\* leaves a signal that was set as it is.
C21_CancelIdempotent ==
    /\ \A j \in created :
           /\ ENABLED Cancel(j)
           /\ ~ENABLED (Cancel(j) /\ ~(panicked' = NoPanic /\ ctxDone'[j]))
           /\ ctxDone[j] => ~ENABLED (Cancel(j) /\ vars' # vars)
    /\ stopPc = "lock" =>
           ~ENABLED (StopCancel /\ \E j \in JobIds : ctxDone[j] /\ ~ctxDone'[j])

\* C21 witness: Stop is at its cancelling step and a registered job has been
\* cancelled by Cancel already.
C21_Witness ==
    /\ stopPc = "lock"
    /\ \E j \in jobs : ctxDone[j]

\* The fields of the jobs other than the cancellation signal, and the
\* execute goroutines.
NotTheSignal == <<Status, Progress, Error, updates, closed, execs>>

\* C22: cancellation is cooperative only: Cancel and the steps of Stop change
\* no Status, Progress, Error or update stream and no execute goroutine; and a
\* job that is "running" leaves that Status only in the step in which a work
\* function of the job returns.
C22_CancelOnlySetsSignal ==
    /\ \A j \in JobIds : ~ENABLED (Cancel(j) /\ NotTheSignal' # NotTheSignal)
    /\ ~ENABLED (StopCancel /\ NotTheSignal' # NotTheSignal)
    /\ ~ENABLED (StopClose /\ panicked' = NoPanic /\ NotTheSignal' # NotTheSignal)
    /\ \A j \in JobIds :
           Status[j] = "running" =>
               ~ENABLED (/\ Next
                         /\ panicked' = NoPanic
                         /\ Status'[j] # "running"
                         /\ ~(\E g \in Execs : \E e \in Errors :
                                  g.job = j /\ ExecFinish(g, e)))

\* C22 witness: a job cancelled by Cancel, Stop not called, is "running" with
\* its work function not returned, and keeps the Progress and the buffered
\* update of an earlier SetProgress call.
C22_Witness ==
    /\ stopPc = "idle"
    /\ \E g \in Execs :
           /\ g.pc = "work" /\ ctxDone[g.job] /\ Status[g.job] = "running"
           /\ Progress[g.job] \in ProgressVals /\ updates[g.job] # <<>>

\* C23: once Stop has been called on a hub whose Run loop is executing, Run
\* returns in the end, whatever arrives on the admission queue in between
\* (unless a panic ends the process first).
C23_RunReturnsAfterStop ==
    (stopPc # "idle" /\ runPc = "loop") ~> (runPc = "returned" \/ panicked # NoPanic)

\* C23 witness: Run has returned after Stop, leaving a job on the admission
\* queue.
C23_Witness ==
    /\ stopPc # "idle" /\ done
    /\ runPc = "returned"
    /\ submit # <<>>

\* C24: the demo-task job of StartJob, submitted and dispatched, with neither
\* Cancel nor Stop called: once its work function has returned, the job is
\* "completed" without an Error, and every terminal update on its stream has
\* Done = true and Error = nil.
C24_DemoTaskCompletes ==
    /\ \A g \in Execs :
           g.pc \in {"send", "close", "done"} =>
               /\ Status[g.job] = "completed" /\ Error[g.job] = Nil
               /\ g.pc = "send" => g.err = Nil
    /\ \A n \in 1..Len(updates[DemoJob]) :
           updates[DemoJob][n].Done => updates[DemoJob][n].Error = Nil

\* C25: once the work function of a dispatched job has returned, execute
\* pushes the terminal update and then closes the stream unconditionally:
\* whatever the stream holds and whether or not a reader drains it, the send
\* and then the close are steps execute can take, and they succeed.
C25_TerminalAlwaysPushed ==
    \A g \in Execs :
        /\ g.pc = "send" =>
               ENABLED (ExecSend(g) /\ panicked' = NoPanic /\ LastUpdate(g.job)'.Done)
        /\ g.pc = "close" =>
               ENABLED (ExecClose(g) /\ panicked' = NoPanic /\ closed'[g.job])

\* The loop of reader r has ended: by break, by the close of the stream, or
\* with the process.
Left(r) == loops[r].at \in {"leftDone", "leftClosed"} \/ panicked # NoPanic
\* Reader r can take a value from the stream of DemoJob.
CanReceive(r) == ENABLED JobStatusReceive(r) \/ ENABLED ReadmeReceive(r)

C27_TerminalProgressAsSet ==
    /\ [](\A j \in JobIds : \A i \in 1..Len(updates[j]) :
              updates[j][i].Done /\ updates[j][i].Error = Nil
                  => updates[j][i].Progress = 100)
    /\ [][\A g \in Execs :
              g.pc = "send" /\ panicked' = NoPanic
                  => Progress'[g.job] = Progress[g.job]]_vars

\* C28: JobStatus reports not-found and emits nothing when Get does not find
\* the identifier.  When the job is found, each update it receives gives one
\* progress patch; the update with Done ends the loop in the same iteration,
\* with the jobStatus signal 'failed' iff the Error of that update is non-nil
\* and 'completed' otherwise, so that nothing is emitted for a later update;
\* no signal is sent before that.
C28_JobStatusStreams ==
    \A r \in Readers :
        /\ \A id \in {UnknownId, DemoJob} :
               ~ENABLED (JobStatusGet(r, id) /\ (loops'[r].at = "notfound") # ~Get(id).ok)
        /\ loops[r].at = "notfound"
               => /\ loops[r].n = 0 /\ loops[r].signal = NoSignal
                  /\ ~ENABLED (ReadNext /\ panicked' = NoPanic /\ loops'[r] # loops[r])
        /\ ~ENABLED (JobStatusReceive(r) /\ loops'[r].n # loops[r].n + 1)
        /\ ~ENABLED (JobStatusReceive(r) /\ loops'[r].n = loops[r].n + 1
                       /\ LET update == Head(updates[DemoJob]) IN
                            ~ IF update.Done
                                THEN /\ loops'[r].at = "leftDone"
                                     /\ loops'[r].signal =
                                            IF update.Error # Nil THEN "failed" ELSE "completed"
                                ELSE /\ loops'[r].at = "status"
                                     /\ loops'[r].signal = NoSignal)
        /\ loops[r].at = "leftDone"
               => /\ r \in doneSeen[DemoJob]
                  /\ ~ENABLED (ReadNext /\ panicked' = NoPanic /\ loops'[r] # loops[r])
        /\ loops[r].signal # NoSignal => loops[r].at = "leftDone"

\* One JobStatus request has streamed a progress update and then the terminal
\* update of a failed job, a further update is waiting in the stream, and the
\* other request did not find its job.
C28_Witness ==
    /\ panicked = NoPanic
    /\ \E r \in Readers :
           /\ loops[r].at = "leftDone" /\ loops[r].n >= 2 /\ loops[r].signal = "failed"
           /\ updates[DemoJob] # <<>>
    /\ \E r \in Readers : loops[r].at = "notfound"

\* C29: for any sequence of Submit calls, the same job submitted twice
\* included, execute runs at most once per job, and the process never panics
\* with a send on, or a second close of, a closed update stream.
C29_ExecuteOncePerJob ==
    /\ \A j \in JobIds : Count({g \in Execs : g.job = j}) <= 1
    /\ panicked \notin {SendOnClosed, CloseOfClosed}

\* C30: once Stop() has returned, no job goes from 'pending' to 'running',
\* whether it was waiting in the admission queue or is submitted afterwards.
C30_NoRunningAfterStop ==
    [][stopPc = "returned"
          => \A j \in JobIds : ~(Status[j] = "pending" /\ Status'[j] = "running")]_vars

\* The jobs waiting in the admission queue.
Queued == {submit[i] : i \in 1..Len(submit)}

\* C31: a job that is waiting in the admission queue once Run has returned,
\* whether it was admitted before or after the return, is never executed: its
\* Status is 'pending', its stream holds no terminal update and is not closed,
\* no reader has received a terminal update from it, and no step dequeues it.
C31_QueuedAfterRunNeverRuns ==
    \A j \in JobIds :
        runPc = "returned" /\ j \in Queued
            => /\ Status[j] = "pending"
               /\ ~closed[j]
               /\ TerminalBuffered(j) = 0
               /\ doneSeen[j] = {}
               /\ ~ENABLED (Next /\ panicked' = NoPanic /\ j \notin Queued')

\* The work function of job j has been invoked.
Invoked(j) == ExecsAt(j, {"work", "setprogress", "send", "close", "done"}) # {}

\* C32: cancelling a job does not withdraw it from the admission queue.
\* Neither Cancel nor the cancellation of Stop changes the queue; the dispatch
\* loop dequeues a cancelled job as any other, and execute then invokes its
\* work function with the signal already set.  So a cancelled job waiting in
\* the queue of a running dispatch loop has its work function invoked in the
\* end, unless the loop returns or the process panics first.
C32_CancelledStillDispatched ==
    /\ [](\A j \in JobIds : ~ENABLED (Cancel(j) /\ submit' # submit))
    /\ [](~ENABLED (StopCancel /\ submit' # submit))
    /\ [](runPc = "loop" /\ submit # <<>> /\ ctxDone[Head(submit)] /\ panicked = NoPanic
             => LET j == Head(submit) IN
                    ENABLED (RunDispatch /\ \E g \in Execs' : g.job = j /\ g.pc = "start"))
    /\ [](\A g \in Execs :
              g.pc = "start" /\ ctxDone[g.job] /\ panicked = NoPanic
                  => ENABLED (ExecStart(g) /\ Invoked(g.job)' /\ ctxDone'[g.job]))
    /\ \A j \in JobIds :
           (j \in Queued /\ ctxDone[j] /\ runPc = "loop")
               ~> (Invoked(j) /\ ctxDone[j]) \/ runPc = "returned" \/ panicked # NoPanic

\* A job that is 'pending', cancelled and never dispatched waits in the queue
\* of a running dispatch loop that no Stop has signalled.
C32_Witness ==
    /\ panicked = NoPanic
    /\ runPc = "loop" /\ ~done
    /\ \E j \in Queued :
           /\ ctxDone[j] /\ Status[j] = "pending"
           /\ ExecsAt(j, {"start", "work", "setprogress", "send", "close", "done"}) = {}

\* The jobs whose Status is 'running'.
Running == {j \in JobIds : Status[j] = "running"}

\* C33: the admission queue never holds more jobs than its capacity and no
\* update stream holds more updates than its capacity; the number of jobs
\* running at once is bounded by neither: the dispatch loop starts execute for
\* the job at the head of the queue whatever the number of running jobs, and
\* execute sets 'running' whatever that number.
C33_CapacitiesBoundBuffersOnly ==
    /\ Len(submit) <= QueueCap
    /\ \A j \in JobIds : Len(updates[j]) <= UpdatesCap
    /\ runPc = "loop" /\ submit # <<>> /\ panicked = NoPanic
           => ENABLED (RunDispatch /\ Len(submit') = Len(submit) - 1)
    /\ \A g \in Execs :
           g.pc = "start" /\ panicked = NoPanic
               => ENABLED (ExecStart(g) /\ Status'[g.job] = "running")

\* More jobs are running at once than the admission queue and than an update
\* stream can hold, while the stream of one of them is full.
C33_Witness ==
    /\ panicked = NoPanic
    /\ Cardinality(Running) > QueueCap
    /\ Cardinality(Running) > UpdatesCap
    /\ \E j \in Running : Len(updates[j]) = UpdatesCap

\* The tasks of the call that returned an error.
Failed == {i \in 1..par.n : par.res[i] = "err"}

\* C34: runParallel returns only after every task has finished; no task
\* goroutine blocks, or panics, when it reports its error; and the error
\* returned is nil iff every task returned nil, otherwise it joins exactly one
\* error for each task that failed and nothing else.
C34_RunParallelJoinsAll ==
    /\ par.pc \in {"close", "range", "returned"}
           => \A i \in 1..par.n : par.task[i] = "done"
    /\ \A i \in Tasks :
           par.task[i] = "send" => ENABLED (TaskSend(i) /\ par'.task[i] = "exit")
    /\ par.pc = "returned"
           => /\ par.ret.isNil <=> \A i \in 1..par.n : par.res[i] = "nil"
              /\ Len(par.ret.errs) = Cardinality(Failed)
              /\ \A i \in Failed :
                     Cardinality({k \in 1..Len(par.ret.errs) : par.ret.errs[k] = i}) = 1

\* runParallel has returned the errors of two failed tasks, in the order
\* opposite to that of the tasks, while a third task returned nil.
C34_Witness ==
    /\ par.pc = "returned" /\ par.n = MaxTasks
    /\ Cardinality(Failed) >= 2
    /\ \E i \in 1..par.n : par.res[i] = "nil"
    /\ \E k \in 1..(Len(par.ret.errs) - 1) : par.ret.errs[k] > par.ret.errs[k + 1]

====
